---- MODULE Spec2Model ----
(***************************************************************************)
(* Model of src/src/lib.rs: the message-status order (MessageStatus,       *)
(* MessageRecipient), the wire conversion of MessageStatus, and the lead   *)
(* extraction (LeadDetails::new, TryFrom<ItemsPage> for LeadDetails).      *)
(*                                                                         *)
(* Every operation of the library is a pure function of its arguments, so  *)
(* each specification draws the arguments in Init and its actions apply    *)
(* the operation and store what it returned.                               *)
(*                                                                         *)
(* A Rust String is a sequence of one-character strings; Option<T> is      *)
(* None or Some(v); Result<T, E> is a record tagged "Ok" or with the name  *)
(* of the SharedAdapterError variant.                                      *)
(***************************************************************************)
EXTENDS Integers, Sequences, FiniteSets, TLC

VARIABLES
    op,       \* which operation this run exercises
    pc,       \* position of the caller: "start", intermediate labels, "done"
    arg,      \* the arguments the operation is called with
    ret,      \* what the operation returned (Idle before it returns)
    best,     \* the accumulator of the max reduction over status reports
    n         \* how many status reports the reduction has folded

vars == <<op, pc, arg, ret, best, n>>

Idle == [tag |-> "Idle"]

(***************************************************************************)
(* Bounds of the model.                                                    *)
(***************************************************************************)
MaxReports == 3   \* status reports folded by one max reduction
MaxHead == 2      \* free leading characters of a phone string
MaxPad == 11      \* repeated trailing characters of a phone string
MaxCols == 3      \* column-value records of the first item
MaxItems == 2     \* items of a page

(***************************************************************************)
(* Option<T>                                                               *)
(***************************************************************************)
None == [is_some |-> FALSE]
Some(v) == [is_some |-> TRUE, val |-> v]

(***************************************************************************)
(* std::cmp::Ordering and the comparison of two u8 values.                 *)
(***************************************************************************)
Less == "Less"
Equal == "Equal"
Greater == "Greater"

U8 == 256

u8_cmp(x, y) == IF x < y THEN Less ELSE IF x = y THEN Equal ELSE Greater

(***************************************************************************)
(* enum MessageStatus, in declaration order.                               *)
(***************************************************************************)
MessageStatus ==
    {"Unknown", "Pending", "Failed", "Sent", "Delivered", "Read", "Responded",
     "Unsubscribed"}

\* strum's EnumCount: MessageStatus::COUNT is the number of variants.
COUNT == Cardinality(MessageStatus)

\* A slip in the rank table: Failed and Unknown share rank 5.
status_to_index_dup(status) ==
    CASE status = "Pending" -> 0
      [] status = "Sent" -> 1
      [] status = "Delivered" -> 2
      [] status = "Read" -> 3
      [] status = "Responded" -> 4
      [] status = "Failed" -> 5
      [] status = "Unknown" -> 5
      [] status = "Unsubscribed" -> 7

\* A slip in the rank table: the ranks follow the declaration order.
status_to_index_decl(status) ==
    CASE status = "Unknown" -> 0
      [] status = "Pending" -> 1
      [] status = "Failed" -> 2
      [] status = "Sent" -> 3
      [] status = "Delivered" -> 4
      [] status = "Read" -> 5
      [] status = "Responded" -> 6
      [] status = "Unsubscribed" -> 7

\* MessageStatus::to_index
status_to_index(status) ==
    CASE status = "Pending" -> 0
      [] status = "Sent" -> 1
      [] status = "Delivered" -> 2
      [] status = "Read" -> 3
      [] status = "Responded" -> 4
      [] status = "Failed" -> 5
      [] status = "Unknown" -> 6
      [] status = "Unsubscribed" -> 7

\* Ord for MessageStatus
status_cmp(a, b) == u8_cmp(status_to_index(a), status_to_index(b))

(***************************************************************************)
(* enum MessageRecipient { Host(MessageStatus), Client(MessageStatus) }    *)
(***************************************************************************)
Host(status) == [channel |-> "Host", status |-> status]
Client(status) == [channel |-> "Client", status |-> status]

MessageRecipient ==
    {Host(s) : s \in MessageStatus} \cup {Client(s) : s \in MessageStatus}

\* A slip: the Host offset is left out.
to_index_no_offset(r) == status_to_index(r.status)

\* A slip: the offset is one short of the number of variants.
to_index_short_offset(r) ==
    IF r.channel = "Client"
    THEN status_to_index(r.status)
    ELSE (status_to_index(r.status) + (COUNT - 1)) % U8

\* MessageRecipient::to_index (u8 arithmetic)
to_index(r) ==
    IF r.channel = "Client"
    THEN status_to_index(r.status)
    ELSE (status_to_index(r.status) + (COUNT % U8)) % U8

\* Ord for MessageRecipient
cmp(a, b) == u8_cmp(to_index(a), to_index(b))

\* derive(PartialEq, Eq) for MessageRecipient: same variant, equal payload.
eq(a, b) == a.channel = b.channel /\ a.status = b.status

\* Ord::max: the second argument unless the first compares Greater.
max(a, b) == IF cmp(a, b) = Greater THEN a ELSE b

(***************************************************************************)
(* Comparisons: three recipients (and their statuses) are drawn and every  *)
(* comparison among them is evaluated.                                     *)
(***************************************************************************)
InitOrder ==
    /\ op = "cmp"
    /\ pc = "start"
    /\ arg \in MessageRecipient \X MessageRecipient \X MessageRecipient
    /\ ret = Idle
    /\ best = None
    /\ n = 0

Compare ==
    /\ op = "cmp"
    /\ pc = "start"
    /\ pc' = "done"
    /\ ret' = [ab |-> cmp(arg[1], arg[2]),
               ba |-> cmp(arg[2], arg[1]),
               bc |-> cmp(arg[2], arg[3]),
               ac |-> cmp(arg[1], arg[3]),
               aa |-> cmp(arg[1], arg[1]),
               eq_ab |-> eq(arg[1], arg[2]),
               status_ab |-> status_cmp(arg[1].status, arg[2].status),
               index_a |-> to_index(arg[1])]
    /\ UNCHANGED <<op, arg, best, n>>

NextOrder == Compare

SpecOrder == InitOrder /\ [][NextOrder]_vars

(***************************************************************************)
(* The max/merge reduction of section 4.1: the status reports about one    *)
(* message arrive in the order of arg and are folded with Ord::max.        *)
(***************************************************************************)
Reports == UNION {[1..k -> MessageRecipient] : k \in 1..MaxReports}

InitMerge ==
    /\ op = "merge"
    /\ pc = "start"
    /\ arg \in Reports
    /\ ret = Idle
    /\ best = None
    /\ n = 0

Arrive ==
    /\ op = "merge"
    /\ n < Len(arg)
    /\ n' = n + 1
    /\ best' = IF best = None
               THEN Some(arg[n + 1])
               ELSE Some(max(best.val, arg[n + 1]))
    /\ pc' = IF n + 1 = Len(arg) THEN "done" ELSE "folding"
    /\ UNCHANGED <<op, arg, ret>>

NextMerge == Arrive

SpecMerge == InitMerge /\ [][NextMerge]_vars

(***************************************************************************)
(* Strings and str::to_lowercase (ASCII letters; every other character of  *)
(* the alphabet used here is its own lowercase).                           *)
(***************************************************************************)
UpperLetters ==
    <<"A", "B", "C", "D", "E", "F", "G", "H", "I", "J", "K", "L", "M",
      "N", "O", "P", "Q", "R", "S", "T", "U", "V", "W", "X", "Y", "Z">>
LowerLetters ==
    <<"a", "b", "c", "d", "e", "f", "g", "h", "i", "j", "k", "l", "m",
      "n", "o", "p", "q", "r", "s", "t", "u", "v", "w", "x", "y", "z">>

char_to_lowercase(c) ==
    IF \E i \in 1..Len(UpperLetters) : UpperLetters[i] = c
    THEN LowerLetters[CHOOSE i \in 1..Len(UpperLetters) : UpperLetters[i] = c]
    ELSE c

char_to_uppercase(c) ==
    IF \E i \in 1..Len(LowerLetters) : LowerLetters[i] = c
    THEN UpperLetters[CHOOSE i \in 1..Len(LowerLetters) : LowerLetters[i] = c]
    ELSE c

to_lowercase(s) == [i \in 1..Len(s) |-> char_to_lowercase(s[i])]

(***************************************************************************)
(* The wire strings of MessageStatus.                                      *)
(***************************************************************************)
W_sent == <<"s", "e", "n", "t">>
W_delivered == <<"d", "e", "l", "i", "v", "e", "r", "e", "d">>
W_read == <<"r", "e", "a", "d">>
W_failed == <<"f", "a", "i", "l", "e", "d">>
W_pending == <<"p", "e", "n", "d", "i", "n", "g">>
W_responded == <<"r", "e", "s", "p", "o", "n", "d", "e", "d">>
W_unsubscribed == <<"u", "n", "s", "u", "b", "s", "c", "r", "i", "b", "e", "d">>
W_not_sent == <<"n", "o", "t", " ", "s", "e", "n", "t">>

\* A slip: the "responded" arm is missing, so it falls to the default.
from_string_missing_arm(status) ==
    LET s == to_lowercase(status)
    IN  CASE s = W_sent -> "Sent"
          [] s = W_delivered -> "Delivered"
          [] s = W_read -> "Read"
          [] s = W_failed -> "Failed"
          [] s = W_pending -> "Pending"
          [] s = W_unsubscribed -> "Unsubscribed"
          [] OTHER -> "Unknown"

\* MessageStatus::from_string
from_string(status) ==
    LET s == to_lowercase(status)
    IN  CASE s = W_sent -> "Sent"
          [] s = W_delivered -> "Delivered"
          [] s = W_read -> "Read"
          [] s = W_failed -> "Failed"
          [] s = W_pending -> "Pending"
          [] s = W_responded -> "Responded"
          [] s = W_unsubscribed -> "Unsubscribed"
          [] OTHER -> "Unknown"

\* MessageStatus::to_string
to_string(v) ==
    CASE v = "Sent" -> W_sent
      [] v = "Delivered" -> W_delivered
      [] v = "Read" -> W_read
      [] v = "Failed" -> W_failed
      [] v = "Pending" -> W_pending
      [] v = "Responded" -> W_responded
      [] v = "Unsubscribed" -> W_unsubscribed
      [] OTHER -> W_not_sent

(***************************************************************************)
(* Inputs of from_string: every wire string in every mix of upper and      *)
(* lower case, every wire string cut short by one character or extended by *)
(* one, the empty string and the name of the Unknown variant.              *)
(***************************************************************************)
WireWords ==
    {W_sent, W_delivered, W_read, W_failed, W_pending, W_responded,
     W_unsubscribed, W_not_sent}

Cased(w) ==
    {[i \in 1..Len(w) |-> IF i \in U THEN char_to_uppercase(w[i]) ELSE w[i]] :
        U \in SUBSET (1..Len(w))}

WireInputs ==
    UNION {Cased(w) : w \in WireWords}
    \cup {SubSeq(w, 1, Len(w) - 1) : w \in WireWords}
    \cup {w \o <<"s">> : w \in WireWords}
    \cup {<<>>, <<"u", "n", "k", "n", "o", "w", "n">>}

InitWire ==
    /\ \/ op = "round_trip" /\ arg \in MessageStatus
       \/ op = "from_string" /\ arg \in WireInputs
    /\ pc = "start"
    /\ ret = Idle
    /\ best = None
    /\ n = 0

\* round_trip: to_string then from_string; from_string: the reverse.
CallToString ==
    /\ \/ op = "round_trip" /\ pc = "start"
          /\ ret' = [wire |-> to_string(arg)]
          /\ pc' = "wired"
       \/ op = "from_string" /\ pc = "parsed"
          /\ ret' = [status |-> ret.status, wire |-> to_string(ret.status)]
          /\ pc' = "done"
    /\ UNCHANGED <<op, arg, best, n>>

CallFromString ==
    /\ \/ op = "round_trip" /\ pc = "wired"
          /\ ret' = [wire |-> ret.wire, status |-> from_string(ret.wire)]
          /\ pc' = "done"
       \/ op = "from_string" /\ pc = "start"
          /\ ret' = [status |-> from_string(arg)]
          /\ pc' = "parsed"
    /\ UNCHANGED <<op, arg, best, n>>

NextWire == CallToString \/ CallFromString

SpecWire == InitWire /\ [][NextWire]_vars

(***************************************************************************)
(* enum SharedAdapterError and the Result values of the lead extraction.   *)
(***************************************************************************)
InvalidPhoneNumber(raw) == [tag |-> "InvalidPhoneNumber", raw |-> raw]
DataFieldNotFound(field) == [tag |-> "DataFieldNotFound", field |-> field]
Ok(lead) == [tag |-> "Ok", name |-> lead.name, phone_number |-> lead.phone_number]

(***************************************************************************)
(* String::len is the length in bytes of the UTF-8 encoding.               *)
(***************************************************************************)
Chars == {"1", "5", "a", "é"}

utf8_len(c) == IF c = "é" THEN 2 ELSE 1

RECURSIVE len(_)
len(s) == IF s = <<>> THEN 0 ELSE utf8_len(Head(s)) + len(Tail(s))

\* str::contains with a one-character pattern
contains(s, c) == \E i \in 1..Len(s) : s[i] = c

\* A slip: the leading "1" is never inserted.
new_no_insert(name, phone_number) ==
    IF len(phone_number) # 10 /\ len(phone_number) # 11
    THEN InvalidPhoneNumber(phone_number)
    ELSE Ok([name |-> name, phone_number |-> phone_number])

\* LeadDetails::new
new(name, phone_number) ==
    IF len(phone_number) # 10 /\ len(phone_number) # 11
    THEN InvalidPhoneNumber(phone_number)
    ELSE Ok([name |-> name,
             phone_number |-> IF len(phone_number) = 10
                              THEN <<"1">> \o phone_number
                              ELSE phone_number])

(***************************************************************************)
(* serde_json::Value (the kinds used here), a column-value record          *)
(* (HashMap<String, Value>, as what get returns for each key), Item and    *)
(* ItemsPage.                                                              *)
(***************************************************************************)
JString(s) == [kind |-> "String", s |-> s]
JNumber(digits) == [kind |-> "Number", digits |-> digits]
JNull == [kind |-> "Null"]

\* Value::as_str
as_str(v) == IF v.kind = "String" THEN Some(v.s) ELSE None

\* Option::unwrap_or_default, for Option<&str> and for Option<bool>
str_unwrap_or_default(o) == IF o.is_some THEN o.val ELSE <<>>
bool_unwrap_or_default(o) == IF o.is_some THEN o.val ELSE FALSE

\* Option::map with the closure |text| text.as_str().unwrap_or_default().contains("1")
map_contains_1(o) ==
    IF o.is_some
    THEN Some(contains(str_unwrap_or_default(as_str(o.val)), "1"))
    ELSE None

\* A slip: a record without "text" is taken for a match.
find_predicate_absent_matches(column_value) ==
    IF column_value.text.is_some
    THEN contains(str_unwrap_or_default(as_str(column_value.text.val)), "1")
    ELSE TRUE

\* the closure given to find
find_predicate(column_value) ==
    bool_unwrap_or_default(map_contains_1(column_value.text))

RECURSIVE find_from(_, _)
find_from(column_values, i) ==
    IF i > Len(column_values) THEN None
    ELSE IF find_predicate(column_values[i]) THEN Some(column_values[i])
    ELSE find_from(column_values, i + 1)

RECURSIVE rfind_from(_, _)
rfind_from(column_values, i) ==
    IF i < 1 THEN None
    ELSE IF find_predicate(column_values[i]) THEN Some(column_values[i])
    ELSE rfind_from(column_values, i - 1)

\* A slip: the scan returns the last matching record.
find_last(column_values) == rfind_from(column_values, Len(column_values))

\* Iterator::find over column_values.iter()
find(column_values) == find_from(column_values, 1)

\* [T]::first
first(items) == IF items = <<>> THEN None ELSE Some(items[1])

\* the phone_number chain of try_from, after column_values has been read
phone_number_of(name, column_values) ==
    LET found == find(column_values)
    IN  IF ~found.is_some THEN DataFieldNotFound("phone_number")
        ELSE IF ~found.val.text.is_some THEN DataFieldNotFound("text")
        ELSE IF ~as_str(found.val.text.val).is_some THEN DataFieldNotFound("text")
        ELSE new(name, as_str(found.val.text.val).val)

\* A slip: column_values is read before name.
try_from_columns_first(items_page) ==
    LET item == first(items_page.items)
    IN  IF ~item.is_some THEN DataFieldNotFound("items")
        ELSE IF ~item.val.column_values.is_some
             THEN DataFieldNotFound("column_values")
        ELSE IF ~item.val.name.is_some THEN DataFieldNotFound("name")
        ELSE phone_number_of(item.val.name.val, item.val.column_values.val)

\* TryFrom<ItemsPage> for LeadDetails
try_from(items_page) ==
    LET item == first(items_page.items)
    IN  IF ~item.is_some THEN DataFieldNotFound("items")
        ELSE IF ~item.val.name.is_some THEN DataFieldNotFound("name")
        ELSE IF ~item.val.column_values.is_some
             THEN DataFieldNotFound("column_values")
        ELSE phone_number_of(item.val.name.val, item.val.column_values.val)

(***************************************************************************)
(* Inputs of the lead extraction.                                          *)
(***************************************************************************)
Rep(c, k) == [i \in 1..k |-> c]

Jane == <<"J", "a", "n", "e">>

Names == {<<>>, Jane}

\* a phone string: up to MaxHead free characters, then one character
\* repeated up to MaxPad times
PhoneInputs ==
    {head \o Rep(c, k) :
        head \in UNION {[1..h -> Chars] : h \in 0..MaxHead},
        c \in Chars,
        k \in 0..MaxPad}

\* texts of a column: empty, without "1" (10 bytes), with "1" and 10 bytes,
\* with "1" and 11 bytes beginning with "1" or with "5", with "1" and too short
ColumnTexts ==
    {<<>>, Rep("5", 10), <<"1">> \o Rep("5", 9), <<"1">> \o Rep("5", 10),
     <<"5">> \o Rep("1", 10), <<"1">>}

ColumnValues ==
    {[text |-> None, id |-> None],
     [text |-> None, id |-> Some(JString(<<"1">> \o Rep("5", 10)))],
     [text |-> Some(JNumber(<<"1">> \o Rep("5", 10))), id |-> None],
     [text |-> Some(JNull), id |-> None]}
    \cup {[text |-> Some(JString(t)), id |-> None] : t \in ColumnTexts}

FirstItems ==
    {[name |-> nm, id |-> None, column_values |-> cvs] :
        nm \in {None, Some(Jane)},
        cvs \in {None} \cup
                {Some(q) : q \in UNION {[1..k -> ColumnValues] : k \in 0..MaxCols}}}

\* the items after the first: a complete one and an empty one
RestItems ==
    {[name |-> Some(Jane), id |-> None,
      column_values |-> Some(<<[text |-> Some(JString(<<"1">> \o Rep("5", 10))),
                               id |-> None]>>)],
     [name |-> None, id |-> None, column_values |-> None]}

Pages ==
    {[items |-> <<>>]}
    \cup {[items |-> <<f>> \o rest] :
            f \in FirstItems,
            rest \in UNION {[1..k -> RestItems] : k \in 0..(MaxItems - 1)}}

InitLead ==
    /\ \/ op = "new" /\ arg \in [name : Names, phone_number : PhoneInputs]
       \/ op = "try_from" /\ arg \in Pages
    /\ pc = "start"
    /\ ret = Idle
    /\ best = None
    /\ n = 0

New ==
    /\ op = "new"
    /\ pc = "start"
    /\ ret' = new(arg.name, arg.phone_number)
    /\ pc' = "done"
    /\ UNCHANGED <<op, arg, best, n>>

TryFrom ==
    /\ op = "try_from"
    /\ pc = "start"
    /\ ret' = try_from(arg)
    /\ pc' = "done"
    /\ UNCHANGED <<op, arg, best, n>>

NextLead == New \/ TryFrom

SpecLead == InitLead /\ [][NextLead]_vars

(***************************************************************************)
(* The library as a whole.                                                 *)
(***************************************************************************)
Init == InitOrder \/ InitMerge \/ InitWire \/ InitLead

Next == Compare \/ Arrive \/ CallToString \/ CallFromString \/ New \/ TryFrom

Spec == Init /\ [][Next]_vars

(***************************************************************************)
(*                              Properties                                 *)
(***************************************************************************)

\* the rank table of the specification, lowest rank first
RankTable ==
    <<"Pending", "Sent", "Delivered", "Read", "Responded", "Failed", "Unknown",
      "Unsubscribed">>

SpecRank(status) == (CHOOSE i \in 1..Len(RankTable) : RankTable[i] = status) - 1

CmpDone == op = "cmp" /\ pc = "done"

\* C1: channel dominance. For every pair of statuses s, s' (s = s' included),
\* Host(s) compares strictly greater than Client(s'), and so Client(s')
\* compares less than Host(s).
C1_ChannelDominance ==
    (CmpDone /\ arg[1].channel = "Host" /\ arg[2].channel = "Client")
        => (ret.ab = Greater /\ ret.ba = Less)

\* Host(Pending) has been compared with Client(Unsubscribed) and won.
C1_Witness ==
    /\ CmpDone
    /\ arg[1] = Host("Pending")
    /\ arg[2] = Client("Unsubscribed")
    /\ ret.ab = Greater

\* C2: rank is preserved within a channel. When two recipients of the same
\* channel carry statuses s1, s2 with s1 above s2 in the table
\* Pending < Sent < Delivered < Read < Responded < Failed < Unknown <
\* Unsubscribed, the first compares Greater, and so do the statuses themselves.
C2_RankPreserved ==
    (CmpDone /\ SpecRank(arg[1].status) > SpecRank(arg[2].status))
        => /\ ret.status_ab = Greater
           /\ arg[1].channel = arg[2].channel => ret.ab = Greater

\* Host(Unsubscribed) has been compared with Host(Pending) and won, as has
\* Unknown over Failed.
C2_Witness ==
    /\ CmpDone
    /\ \/ arg[1] = Host("Unsubscribed") /\ arg[2] = Host("Pending")
       \/ arg[1] = Client("Unknown") /\ arg[2] = Client("Failed")
    /\ ret.ab = Greater
    /\ ret.status_ab = Greater

LessEq(o) == o \in {Less, Equal}

\* C3: the comparison of recipients is a total order that agrees with derived
\* equality. It returns Equal exactly for the same channel and status (the
\* combined index is injective, and so is the rank), it is reflexive,
\* antisymmetric and transitive, and the combined index is
\* rank + (Host ? COUNT : 0) and fits a u8.
C3_TotalOrder ==
    CmpDone =>
        /\ (ret.ab = Equal) <=> ret.eq_ab
        /\ ret.eq_ab <=> (arg[1] = arg[2])
        /\ (ret.status_ab = Equal) <=> (arg[1].status = arg[2].status)
        /\ ret.aa = Equal
        /\ (ret.ab = Less) <=> (ret.ba = Greater)
        /\ (ret.ab = Greater) <=> (ret.ba = Less)
        /\ (LessEq(ret.ab) /\ LessEq(ret.ba)) => arg[1] = arg[2]
        /\ (LessEq(ret.ab) /\ LessEq(ret.bc)) => LessEq(ret.ac)
        /\ (ret.ab = Less /\ ret.bc = Less) => ret.ac = Less
        /\ ret.index_a = SpecRank(arg[1].status)
                           + (IF arg[1].channel = "Host" THEN COUNT ELSE 0)
        /\ ret.index_a < U8

\* Two different recipients compared unequal, and a chain a < b < c was
\* compared with a < c.
C3_Witness ==
    /\ CmpDone
    /\ arg = <<Client("Failed"), Client("Unknown"), Host("Pending")>>
    /\ ret.ab = Less /\ ret.bc = Less /\ ret.ac = Less
    /\ ~ret.eq_ab

Range(q) == {q[i] : i \in 1..Len(q)}

\* the permutations of a sequence
Permutations_of(q) ==
    {[i \in 1..Len(q) |-> q[f[i]]] : f \in Permutations(1..Len(q))}

\* the fold of max over a non-empty sequence, left to right
RECURSIVE fold_max(_)
fold_max(q) ==
    IF Len(q) = 1 THEN q[1] ELSE max(fold_max(SubSeq(q, 1, Len(q) - 1)), q[Len(q)])

MergeDone == op = "merge" /\ pc = "done"

\* C4: max/merge reduction. Once every report of a non-empty sequence has
\* been folded with max, the winner is one of the reports, it is the winner
\* of every other arrival order of the same reports, it is a Host report
\* whenever there is a Host report, and no report of its channel has a
\* higher-ranked status.
C4_MaxReduction ==
    MergeDone =>
        /\ best.is_some
        /\ best.val \in Range(arg)
        /\ \A q \in Permutations_of(arg) : fold_max(q) = best.val
        /\ (\E r \in Range(arg) : r.channel = "Host") => best.val.channel = "Host"
        /\ \A r \in Range(arg) :
              r.channel = best.val.channel
                  => SpecRank(r.status) <= SpecRank(best.val.status)

\* A Client report of the highest rank arrived after a Host report of the
\* lowest, and the Host report won.
C4_Witness ==
    /\ MergeDone
    /\ Len(arg) >= 2
    /\ arg[1] = Host("Pending")
    /\ arg[Len(arg)] = Client("Unsubscribed")
    /\ best = Some(Host("Pending"))

\* the seven wire words that from_string maps to a variant of their own
MappedWords ==
    {W_sent, W_delivered, W_read, W_failed, W_pending, W_responded,
     W_unsubscribed}

\* C5 as stated: to_string then from_string gives back every variant, and
\* every input string that is not one of the seven mapped wire words parses
\* to Unknown, which serializes to "not sent".
C5_AsStated ==
    /\ (op = "round_trip" /\ pc = "done") => ret.status = arg
    /\ (op = "from_string" /\ pc = "done" /\ arg \notin MappedWords)
           => (ret.status = "Unknown" /\ ret.wire = W_not_sent)

\* C5 (amended): to_string then from_string gives back every variant
\* (Unknown travels as "not sent"), and every input string whose lowercase
\* form is not one of the seven mapped wire words parses to Unknown, which
\* serializes to "not sent".
C5_RoundTrip ==
    /\ (op = "round_trip" /\ pc = "done")
           => /\ ret.status = arg
              /\ arg = "Unknown" => ret.wire = W_not_sent
    /\ (op = "from_string" /\ pc = "done" /\ to_lowercase(arg) \notin MappedWords)
           => (ret.status = "Unknown" /\ ret.wire = W_not_sent)

\* Unknown went through the round trip by way of "not sent", which is not
\* one of the seven mapped words.
C5_Witness ==
    /\ op = "round_trip" /\ pc = "done"
    /\ arg = "Unknown"
    /\ ret.wire = W_not_sent
    /\ ret.wire \notin MappedWords
    /\ ret.status = "Unknown"

NewDone == op = "new" /\ pc = "done"

\* C6: phone normalization in LeadDetails::new. An input of length 10 gives
\* Ok with "1" followed by the input, an input of length 11 gives Ok with the
\* input unchanged, any other length gives InvalidPhoneNumber carrying the
\* input unchanged; on success the name is the one given. (Length is
\* String::len, the length in bytes.)
C6_PhoneNormalization ==
    NewDone =>
        /\ len(arg.phone_number) = 10
               => ret = Ok([name |-> arg.name,
                            phone_number |-> <<"1">> \o arg.phone_number])
        /\ len(arg.phone_number) = 11
               => ret = Ok([name |-> arg.name, phone_number |-> arg.phone_number])
        /\ len(arg.phone_number) \notin {10, 11}
               => ret = InvalidPhoneNumber(arg.phone_number)

\* new returned Ok for a 10-character input, with the "1" in front.
C6_Witness ==
    /\ NewDone
    /\ arg.phone_number = Rep("5", 10)
    /\ ret.tag = "Ok"
    /\ ret.phone_number = <<"1">> \o Rep("5", 10)

Digits == {"0", "1", "2", "3", "4", "5", "6", "7", "8", "9"}

\* C7: every LeadDetails returned as Ok by LeadDetails::new or by the
\* conversion from ItemsPage has a phone_number of exactly 11 ASCII digits
\* that begins with "1".
C7_PhoneInvariant ==
    (op \in {"new", "try_from"} /\ pc = "done" /\ ret.tag = "Ok")
        => /\ Len(ret.phone_number) = 11
           /\ \A i \in 1..Len(ret.phone_number) : ret.phone_number[i] \in Digits
           /\ ret.phone_number[1] = "1"

TryFromDone == op = "try_from" /\ pc = "done"

\* the record's "text" is a JSON string containing "1"
HasPhoneText(column_value) ==
    /\ column_value.text.is_some
    /\ column_value.text.val.kind = "String"
    /\ \E i \in 1..Len(column_value.text.val.s) : column_value.text.val.s[i] = "1"

\* the first item has a name and column_values
Scanned ==
    /\ TryFromDone
    /\ arg.items # <<>>
    /\ arg.items[1].name.is_some
    /\ arg.items[1].column_values.is_some

Columns == arg.items[1].column_values.val

\* C8: extraction error precedence. Only the first item is looked at, and
\* the conversion fails at the first failing step: empty page -> "items";
\* name absent -> "name", whatever column_values and the later items hold;
\* column_values absent -> "column_values"; no record whose text is a string
\* containing "1" (an empty column list included) -> "phone_number". Every
\* page gives Ok or one of the two typed errors.
C8_ErrorPrecedence ==
    TryFromDone =>
        /\ ret.tag \in {"Ok", "InvalidPhoneNumber", "DataFieldNotFound"}
        /\ arg.items = <<>> => ret = DataFieldNotFound("items")
        /\ (arg.items # <<>> /\ ~arg.items[1].name.is_some)
               => ret = DataFieldNotFound("name")
        /\ (arg.items # <<>> /\ arg.items[1].name.is_some
                /\ ~arg.items[1].column_values.is_some)
               => ret = DataFieldNotFound("column_values")
        /\ (Scanned /\ \A i \in 1..Len(Columns) : ~HasPhoneText(Columns[i]))
               => ret = DataFieldNotFound("phone_number")

\* A first item with neither name nor column_values, followed by a complete
\* item, failed with "name".
C8_Witness ==
    /\ TryFromDone
    /\ Len(arg.items) = 2
    /\ ~arg.items[1].name.is_some
    /\ ~arg.items[1].column_values.is_some
    /\ arg.items[2].name.is_some
    /\ arg.items[2].column_values.is_some
    /\ ret = DataFieldNotFound("name")

\* the record's "text" is a JSON value that is not a string but reads as a
\* text containing "1"
NonStringPhoneText(column_value) ==
    /\ column_value.text.is_some
    /\ column_value.text.val.kind = "Number"
    /\ \E i \in 1..Len(column_value.text.val.digits) :
          column_value.text.val.digits[i] = "1"

\* C9 as stated: when the first record that the scan for a text containing
\* "1" stops at holds a "text" that is not representable as a string, the
\* conversion fails with DataFieldNotFound("text").
C9_AsStated ==
    (Scanned /\ \E i \in 1..Len(Columns) :
                    /\ NonStringPhoneText(Columns[i])
                    /\ \A j \in 1..(i - 1) : ~HasPhoneText(Columns[j]))
        => ret = DataFieldNotFound("text")

\* C9 (amended): DataFieldNotFound("text") is never the outcome. A record
\* whose "text" is absent or not a string does not match the scan and is
\* skipped: when no record holds a string text containing "1" the conversion
\* fails with DataFieldNotFound("phone_number").
C9_TextNeverReported ==
    TryFromDone =>
        /\ ret # DataFieldNotFound("text")
        /\ (/\ Scanned
            /\ \A i \in 1..Len(Columns) : ~HasPhoneText(Columns[i])
            /\ \E k \in 1..Len(Columns) :
                  ~Columns[k].text.is_some \/ Columns[k].text.val.kind # "String")
               => ret = DataFieldNotFound("phone_number")

\* A page whose only records lack a string "text" (one has none, one holds a
\* number) failed with "phone_number".
C9_Witness ==
    /\ Scanned
    /\ Len(Columns) = 2
    /\ ~Columns[1].text.is_some
    /\ NonStringPhoneText(Columns[2])
    /\ ret = DataFieldNotFound("phone_number")

\* C10: first-match selection. When the first item has a name and
\* column_values and i is the earliest record whose text is a string
\* containing "1", the result is LeadDetails::new(name, that text): Ok with
\* the normalized text for 10 or 11 bytes, InvalidPhoneNumber(text)
\* otherwise, whatever the records before i (skipped) and after i hold.
C10_FirstMatch ==
    Scanned =>
        \A i \in 1..Len(Columns) :
            (HasPhoneText(Columns[i]) /\ \A j \in 1..(i - 1) : ~HasPhoneText(Columns[j]))
                => LET t == Columns[i].text.val.s
                       name == arg.items[1].name.val
                   IN  /\ len(t) = 10
                              => ret = Ok([name |-> name, phone_number |-> <<"1">> \o t])
                       /\ len(t) = 11
                              => ret = Ok([name |-> name, phone_number |-> t])
                       /\ len(t) \notin {10, 11} => ret = InvalidPhoneNumber(t)

\* A record without text was skipped, the next one matched with a text of
\* invalid length, and a later valid number did not change the result.
C10_Witness ==
    /\ Scanned
    /\ Len(Columns) = 3
    /\ ~Columns[1].text.is_some
    /\ Columns[2].text = Some(JString(<<"1">>))
    /\ Columns[3].text = Some(JString(<<"1">> \o Rep("5", 10)))
    /\ ret = InvalidPhoneNumber(<<"1">>)

====
